---- MODULE Spec2Model ----
(***************************************************************************)
(* Model of the two market-cap scripts of infrastructure/scripts:          *)
(*   update-all-market-caps.py  (script = "update", fetch/report/persist)  *)
(*   check-pltr-marketcap.py    (script = "check",  fetch/report only)     *)
(* The quote provider (yfinance) and the store (DynamoDB) are the          *)
(* environment: a fetch either raises or returns an info dict, and an      *)
(* update_item call either raises or applies the SET expression.           *)
(***************************************************************************)
EXTENDS Integers, Sequences, FiniteSets, TLC

VARIABLES
    script,             \* which of the two scripts runs
    pc,                 \* position of the single thread of control
    i,                  \* index of the current ticker in the list of main()
    info,               \* the dict returned by stock.info / ticker.info
    market_cap,         \* local of update_market_cap
    current_price,      \* local of update_market_cap
    shares_outstanding, \* local of update_market_cap
    out,                \* lines printed on standard output, in order
    store,              \* the DynamoDB table: key -> item
    requests,           \* update_item calls issued so far, in order
    responses,          \* what each of them answered: "ok" or the error raised
    exit_status,        \* process exit status ("running" until the process ends)
    hist,               \* stages entered so far, in order: <<stage, ticker>>
    quotes,             \* per ticker, the values the fetch of update_market_cap read
    divisions           \* operands of the divisions by 1e9 attempted so far

vars == <<script, pc, i, info, market_cap, current_price, shares_outstanding,
          out, store, requests, responses, exit_status, hist, quotes, divisions>>

----------------------------------------------------------------------------
(* Bounds of the environment *)

\* the provider reports market caps 0 and 9 .. 9 + MaxCapStep
MaxCapStep == 1

----------------------------------------------------------------------------
(* Python values *)

NoneV == [t |-> "none", n |-> 0]
Unbound == [t |-> "unbound", n |-> 0]
NA == [t |-> "na", n |-> 0]
Num(n) == [t |-> "num", n |-> n]

\* dict.get(key, default)
DictGet(d, key, default) == IF key \in DOMAIN d THEN d[key] ELSE default

\* truth value of an object: None and 0 are false
Truthy(v) == ~(v.t = "none" \/ (v.t = "num" /\ v.n = 0))

\* format(v, ".2f") and format(v, ",") raise TypeError unless v is a number
Formattable(v) == v.t = "num"

\* v / 1e9 raises TypeError unless v is a number
Divisible(v) == v.t = "num"

FormatErrorMsg == "unsupported format string passed to NoneType.__format__"
DivErrorMsg == "unsupported operand type(s) for /: 'NoneType' and 'float'"

Digit(d) ==
    CASE d = 0 -> "0" [] d = 1 -> "1" [] d = 2 -> "2" [] d = 3 -> "3"
      [] d = 4 -> "4" [] d = 5 -> "5" [] d = 6 -> "6" [] d = 7 -> "7"
      [] d = 8 -> "8" [] d = 9 -> "9"

RECURSIVE IntToStr(_)
\* str(n) of a non-negative int
IntToStr(n) == IF n < 10 THEN Digit(n) ELSE IntToStr(n \div 10) \o Digit(n % 10)

\* str(v)
Str(v) ==
    CASE v.t = "num" -> IntToStr(v.n)
      [] v.t = "none" -> "None"
      [] v.t = "na" -> "N/A"

----------------------------------------------------------------------------
(* The environment's inputs *)

tickers == <<"PLTR", "AMZN", "META">>
CheckTicker == "PLTR"

InfoKeys == {"marketCap", "currentPrice", "regularMarketPrice", "sharesOutstanding"}

CapValues == {0} \cup (9 .. 9 + MaxCapStep)

FieldValues(key) ==
    CASE key = "marketCap" -> {NoneV} \cup {Num(n) : n \in CapValues}
      [] key = "currentPrice" -> {NoneV, Num(3)}
      [] key = "regularMarketPrice" -> {NoneV, Num(4)}
      [] key = "sharesOutstanding" -> {NoneV, Num(5)}

\* every dict the provider can return: any subset of the keys, each with a
\* number or None
InfoSet ==
    UNION { {d \in [D -> UNION {FieldValues(k) : k \in InfoKeys}] :
                \A k \in D : d[k] \in FieldValues(k)} : D \in SUBSET InfoKeys }

NoInfo == <<>>

FetchErrors == {"HTTP Error 429: Too Many Requests", "Connection timed out"}
StoreErrors == {"EndpointConnectionError", "AccessDeniedException",
                "ResourceNotFoundException"}

----------------------------------------------------------------------------
(* Output lines *)

Line(kind, ticker, arg, msg) == [kind |-> kind, ticker |-> ticker, arg |-> arg, msg |-> msg]

----------------------------------------------------------------------------
(* The store *)

TABLE_NAME == "fintail-companies-development"

\* Key={'PK': {'S': f'COMPANY#{ticker}'}, 'SK': {'S': 'METADATA'}}
CompanyKey(ticker) == [PK |-> [S |-> "COMPANY#" \o ticker], SK |-> [S |-> "METADATA"]]

\* the update_item request built by update_market_cap
UpdateRequest(ticker, cap) ==
    [TableName |-> TABLE_NAME,
     Key |-> CompanyKey(ticker),
     UpdateExpression |-> "SET marketCap = :mc",
     ExpressionAttributeValues |-> (":mc" :> [N |-> Str(cap)])]

\* variant: the item is written whole (put_item), dropping its other attributes
ApplyUpdatePut(st, req) ==
    [k \in (DOMAIN st) \cup {req.Key} |->
        IF k = req.Key THEN [marketCap |-> req.ExpressionAttributeValues[":mc"]]
        ELSE st[k]]

\* UpdateItem with 'SET marketCap = :mc' and no condition: the attribute is
\* set on the item of that key, which is created when it does not exist
ApplyUpdate(st, req) ==
    LET val == req.ExpressionAttributeValues[":mc"]
        old == IF req.Key \in DOMAIN st THEN st[req.Key] ELSE <<>>
        new == [a \in (DOMAIN old) \cup {"marketCap"} |->
                    IF a = "marketCap" THEN val ELSE old[a]]
    IN  [k \in (DOMAIN st) \cup {req.Key} |-> IF k = req.Key THEN new ELSE st[k]]

\* the table before the run: a record with a market cap, a record without
\* one, a record of a company outside the list, and no record for META
InitStore ==
    (CompanyKey("PLTR") :> [name |-> [S |-> "Palantir"], marketCap |-> [N |-> "1"]])
    @@ (CompanyKey("AMZN") :> [name |-> [S |-> "Amazon"]])
    @@ (CompanyKey("MSFT") :> [name |-> [S |-> "Microsoft"], marketCap |-> [N |-> "2"]])

----------------------------------------------------------------------------
(* Initial state: the interpreter has loaded one of the two scripts *)

NoQuote == [st |-> "pending", cap |-> Unbound, price |-> Unbound, shares |-> Unbound]

Init ==
    /\ script \in {"update", "check"}
    /\ pc = "start"
    /\ i = 1
    /\ info = NoInfo
    /\ market_cap = Unbound
    /\ current_price = Unbound
    /\ shares_outstanding = Unbound
    /\ out = <<>>
    /\ store = InitStore
    /\ requests = <<>>
    /\ responses = <<>>
    /\ exit_status = "running"
    /\ hist = <<>>
    /\ quotes = [t \in {tickers[k] : k \in 1 .. Len(tickers)} |-> NoQuote]
    /\ divisions = <<>>

----------------------------------------------------------------------------
(* update-all-market-caps.py *)

\* variant: the list is walked from its end
tickerReversed == tickers[Len(tickers) + 1 - i]

ticker == tickers[i]

\* update_market_cap returns (normally or through its except clause): its
\* locals are gone and the for loop of main() moves on
Return ==
    /\ pc' = "loop"
    /\ i' = i + 1
    /\ info' = NoInfo
    /\ market_cap' = Unbound
    /\ current_price' = Unbound
    /\ shares_outstanding' = Unbound

\* except Exception as e: print(f"Error updating {ticker}: {str(e)}")
ErrorLine(t, msg) == Line("error", t, NoneV, msg)

\* main(): banner and ticker list
UMain ==
    /\ script = "update" /\ pc = "start"
    /\ out' = Append(out, Line("banner", "", NoneV, ""))
    /\ pc' = "loop"
    /\ UNCHANGED <<script, i, info, market_cap, current_price, shares_outstanding,
                   store, requests, responses, exit_status, hist, quotes, divisions>>

\* for ticker in tickers: update_market_cap(ticker), up to the try
UCall ==
    /\ script = "update" /\ pc = "loop" /\ i <= Len(tickers)
    /\ out' = Append(out, Line("fetching", ticker, NoneV, ""))
    /\ pc' = "fetch"
    /\ UNCHANGED <<script, i, info, market_cap, current_price, shares_outstanding,
                   store, requests, responses, exit_status, hist, quotes, divisions>>

\* variant: the two field names are swapped
UpdatePriceSwapped(d) ==
    DictGet(d, "regularMarketPrice", DictGet(d, "currentPrice", NoneV))

\* current_price = info.get('currentPrice', info.get('regularMarketPrice'))
UpdatePrice(d) == DictGet(d, "currentPrice", DictGet(d, "regularMarketPrice", NoneV))

\* stock.info returned a dict; the three fields are read from it
UFetchOk ==
    /\ script = "update" /\ pc = "fetch"
    /\ \E d \in InfoSet :
        /\ info' = d
        /\ market_cap' = DictGet(d, "marketCap", NoneV)
        /\ current_price' = UpdatePrice(d)
        /\ shares_outstanding' = DictGet(d, "sharesOutstanding", NoneV)
        /\ quotes' = [quotes EXCEPT ![ticker] =
                        [st |-> "ok",
                         cap |-> DictGet(d, "marketCap", NoneV),
                         price |-> UpdatePrice(d),
                         shares |-> DictGet(d, "sharesOutstanding", NoneV)]]
    /\ hist' = Append(hist, <<"fetch", ticker>>)
    /\ pc' = "report"
    /\ UNCHANGED <<script, i, out, store, requests, responses, exit_status, divisions>>

\* yf.Ticker(ticker) or stock.info raised: caught by the except clause
UFetchFail ==
    /\ script = "update" /\ pc = "fetch"
    /\ \E msg \in FetchErrors : out' = Append(out, ErrorLine(ticker, msg))
    /\ quotes' = [quotes EXCEPT ![ticker].st = "failed"]
    /\ hist' = Append(hist, <<"fetch", ticker>>)
    /\ Return
    /\ UNCHANGED <<script, store, requests, responses, exit_status, divisions>>

\* variant: the test is market_cap == 0
NoMarketCapEqZero(v) == v.t = "num" /\ v.n = 0

\* if not market_cap: print no data; return
NoMarketCap(v) == ~Truthy(v)

UNoData ==
    /\ script = "update" /\ pc = "report"
    /\ NoMarketCap(market_cap)
    /\ out' = Append(out, Line("nodata", ticker, NoneV, ""))
    /\ hist' = Append(hist, <<"report", ticker>>)
    /\ Return
    /\ UNCHANGED <<script, store, requests, responses, exit_status, quotes, divisions>>

\* lines 40-42: the lines printed before the first of them raises (all
\* three when none does)
ReportLines(t, price, cap, shares) ==
    IF ~Formattable(price) THEN <<>>
    ELSE IF ~Divisible(cap) THEN << Line("price", t, price, "") >>
    ELSE IF ~Formattable(shares)
         THEN << Line("price", t, price, ""), Line("capB", t, cap, "") >>
    ELSE << Line("price", t, price, ""), Line("capB", t, cap, ""),
            Line("shares", t, shares, "") >>

\* lines 40-42: the message of the TypeError raised, "" when none is
ReportError(price, cap, shares) ==
    IF ~Formattable(price) THEN FormatErrorMsg
    ELSE IF ~Divisible(cap) THEN DivErrorMsg
    ELSE IF ~Formattable(shares) THEN FormatErrorMsg
    ELSE ""

\* line 41 evaluates market_cap / 1e9 once line 40 has printed
ReportDivisions(t, price, cap) ==
    IF Formattable(price) THEN << <<t, cap>> >> ELSE <<>>

\* the three report lines all format
UReportOk ==
    /\ script = "update" /\ pc = "report"
    /\ ~NoMarketCap(market_cap)
    /\ ReportError(current_price, market_cap, shares_outstanding) = ""
    /\ out' = out \o ReportLines(ticker, current_price, market_cap, shares_outstanding)
    /\ divisions' = divisions \o ReportDivisions(ticker, current_price, market_cap)
    /\ hist' = Append(hist, <<"report", ticker>>)
    /\ pc' = "write"
    /\ UNCHANGED <<script, i, info, market_cap, current_price, shares_outstanding,
                   store, requests, responses, exit_status, quotes>>

\* one of the report lines raises TypeError, after the lines before it were
\* printed; the except clause reports it
UReportErr ==
    /\ script = "update" /\ pc = "report"
    /\ ~NoMarketCap(market_cap)
    /\ ReportError(current_price, market_cap, shares_outstanding) # ""
    /\ out' = out \o ReportLines(ticker, current_price, market_cap, shares_outstanding)
                  \o << ErrorLine(ticker,
                            ReportError(current_price, market_cap, shares_outstanding)) >>
    /\ divisions' = divisions \o ReportDivisions(ticker, current_price, market_cap)
    /\ hist' = Append(hist, <<"report", ticker>>)
    /\ Return
    /\ UNCHANGED <<script, store, requests, responses, exit_status, quotes>>

\* dynamodb.update_item(...) returned; the success line is printed
UWriteOk ==
    /\ script = "update" /\ pc = "write"
    /\ LET req == UpdateRequest(ticker, market_cap) IN
        /\ requests' = Append(requests, req)
        /\ responses' = Append(responses, "ok")
        /\ store' = ApplyUpdate(store, req)
    /\ out' = Append(out, Line("updated", ticker, NoneV, ""))
    /\ hist' = Append(hist, <<"write", ticker>>)
    /\ Return
    /\ UNCHANGED <<script, exit_status, quotes, divisions>>

\* variant: the exception of update_item is not caught and ends the process
UWriteFailUncaught ==
    /\ script = "update" /\ pc = "write"
    /\ requests' = Append(requests, UpdateRequest(ticker, market_cap))
    /\ \E msg \in StoreErrors : responses' = Append(responses, msg)
    /\ hist' = Append(hist, <<"write", ticker>>)
    /\ pc' = "done"
    /\ exit_status' = "1"
    /\ UNCHANGED <<script, i, info, market_cap, current_price, shares_outstanding,
                   out, store, quotes, divisions>>

\* variant: the success line is printed after the except clause too
UWriteFailAlsoSuccess ==
    /\ script = "update" /\ pc = "write"
    /\ requests' = Append(requests, UpdateRequest(ticker, market_cap))
    /\ \E msg \in StoreErrors :
        /\ responses' = Append(responses, msg)
        /\ out' = out \o << ErrorLine(ticker, msg), Line("updated", ticker, NoneV, "") >>
    /\ hist' = Append(hist, <<"write", ticker>>)
    /\ Return
    /\ UNCHANGED <<script, store, exit_status, quotes, divisions>>

\* dynamodb.update_item(...) raised: caught by the except clause
UWriteFail ==
    /\ script = "update" /\ pc = "write"
    /\ requests' = Append(requests, UpdateRequest(ticker, market_cap))
    /\ \E msg \in StoreErrors :
        /\ responses' = Append(responses, msg)
        /\ out' = Append(out, ErrorLine(ticker, msg))
    /\ hist' = Append(hist, <<"write", ticker>>)
    /\ Return
    /\ UNCHANGED <<script, store, exit_status, quotes, divisions>>

\* the loop is exhausted: closing line, main() returns, the process exits 0
UFinish ==
    /\ script = "update" /\ pc = "loop" /\ i > Len(tickers)
    /\ out' = Append(out, Line("completed", "", NoneV, ""))
    /\ pc' = "done"
    /\ exit_status' = "0"
    /\ UNCHANGED <<script, i, info, market_cap, current_price, shares_outstanding,
                   store, requests, responses, hist, quotes, divisions>>

----------------------------------------------------------------------------
(* check-pltr-marketcap.py *)

\* info.get('currentPrice', info.get('regularMarketPrice', 'N/A'))
CheckPrice(d) == DictGet(d, "currentPrice", DictGet(d, "regularMarketPrice", NA))

\* info.get('marketCap', 0)
CheckCap(d) == DictGet(d, "marketCap", Num(0))

\* info.get('sharesOutstanding', 0)
CheckShares(d) == DictGet(d, "sharesOutstanding", Num(0))

\* ticker.info returned a dict
CFetchOk ==
    /\ script = "check" /\ pc = "start"
    /\ \E d \in InfoSet : info' = d
    /\ hist' = Append(hist, <<"fetch", CheckTicker>>)
    /\ pc' = "report"
    /\ UNCHANGED <<script, i, market_cap, current_price, shares_outstanding, out,
                   store, requests, responses, exit_status, quotes, divisions>>

\* yf.Ticker("PLTR") or ticker.info raised: nothing catches it, the
\* interpreter prints the traceback on standard error and exits 1
CFetchFail ==
    /\ script = "check" /\ pc = "start"
    /\ hist' = Append(hist, <<"fetch", CheckTicker>>)
    /\ pc' = "done"
    /\ exit_status' = "1"
    /\ UNCHANGED <<script, i, info, market_cap, current_price, shares_outstanding,
                   out, store, requests, responses, quotes, divisions>>

\* lines 15-19: the lines printed before the first of them raises (all five
\* when none does)
CheckLines(d) ==
    LET head == << Line("header", CheckTicker, NoneV, ""),
                   Line("price", CheckTicker, CheckPrice(d), Str(CheckPrice(d))) >>
        caps == << Line("capB", CheckTicker, CheckCap(d), ""),
                   Line("capRaw", CheckTicker, CheckCap(d), Str(CheckCap(d))) >>
    IN  IF ~Divisible(CheckCap(d)) THEN head
        ELSE IF ~Formattable(CheckShares(d)) THEN head \o caps
        ELSE head \o caps \o << Line("shares", CheckTicker, CheckShares(d), "") >>

\* lines 15-19: the message of the TypeError raised, "" when none is
CheckError(d) ==
    IF ~Divisible(CheckCap(d)) THEN DivErrorMsg
    ELSE IF ~Formattable(CheckShares(d)) THEN FormatErrorMsg
    ELSE ""

\* the five prints all succeed; the script ends, exit status 0
CReportOk ==
    /\ script = "check" /\ pc = "report"
    /\ CheckError(info) = ""
    /\ out' = out \o CheckLines(info)
    /\ divisions' = Append(divisions, <<CheckTicker, CheckCap(info)>>)
    /\ hist' = Append(hist, <<"report", CheckTicker>>)
    /\ pc' = "done"
    /\ exit_status' = "0"
    /\ UNCHANGED <<script, i, info, market_cap, current_price, shares_outstanding,
                   store, requests, responses, quotes>>

\* the division of line 17 or the format of line 19 raises TypeError on a
\* None: the lines before it were printed, nothing catches it, exit status 1
CReportCrash ==
    /\ script = "check" /\ pc = "report"
    /\ CheckError(info) # ""
    /\ out' = out \o CheckLines(info)
    /\ divisions' = Append(divisions, <<CheckTicker, CheckCap(info)>>)
    /\ hist' = Append(hist, <<"report", CheckTicker>>)
    /\ pc' = "done"
    /\ exit_status' = "1"
    /\ UNCHANGED <<script, i, info, market_cap, current_price, shares_outstanding,
                   store, requests, responses, quotes>>

----------------------------------------------------------------------------
(* Specification *)

Next ==
    \/ UMain \/ UCall \/ UFetchOk \/ UFetchFail \/ UNoData \/ UReportOk
    \/ UReportErr \/ UWriteOk \/ UWriteFail \/ UFinish
    \/ CFetchOk \/ CFetchFail \/ CReportOk \/ CReportCrash

Spec == Init /\ [][Next]_vars

----------------------------------------------------------------------------
(* Vocabulary of the properties *)

TickerSet == {tickers[k] : k \in 1 .. Len(tickers)}

Index(t) == CHOOSE k \in 1 .. Len(tickers) : tickers[k] = t

\* update_market_cap(t) has returned
Processed(t) == script = "update" /\ Index(t) < i

\* number of printed lines of ticker t whose kind is in kinds
Count(t, kinds) ==
    Cardinality({k \in 1 .. Len(out) : out[k].ticker = t /\ out[k].kind \in kinds})

\* the update requests issued for ticker t
RequestsFor(t) ==
    {k \in 1 .. Len(requests) :
        requests[k].Key = [PK |-> [S |-> "COMPANY#" \o t], SK |-> [S |-> "METADATA"]]}

\* the fetch of update_market_cap(t) returned a dict without a market cap
CapAbsent(t) == quotes[t].st = "ok" /\ quotes[t].cap = NoneV

\* the fetch of update_market_cap(t) returned a dict with a market cap (a
\* number other than 0, which the provider reports for no company)
CapPresent(t) == quotes[t].st = "ok" /\ quotes[t].cap.t = "num" /\ quotes[t].cap.n > 0

OutcomeKinds == {"updated", "nodata", "error"}

----------------------------------------------------------------------------
(* C1 *)

\* C1: in the persistence script, no update request is ever issued for a
\* ticker whose fetched marketCap is absent, and once that ticker's call has
\* returned its one outcome line is the 'no data' line.
C1_NoWriteWithoutMarketCap ==
    script = "update" =>
        \A t \in TickerSet :
            CapAbsent(t) =>
                /\ RequestsFor(t) = {}
                /\ Count(t, {"updated", "error"}) = 0
                /\ Processed(t) => Count(t, {"nodata"}) = 1

\* a ticker fetched without market cap has been processed to its end
C1_Witness ==
    /\ script = "update" /\ pc = "done"
    /\ \E t \in TickerSet : CapAbsent(t) /\ Count(t, {"nodata"}) = 1

----------------------------------------------------------------------------
(* C3 *)

\* C3: when the store write of a ticker fails, an error line carrying that
\* ticker and the failure message is printed, no success line is printed for
\* that ticker, the process is not aborted, and the loop moves on: every
\* later ticker of the list is still started before the run ends with
\* status 0.
C3_WriteFailureIsReportedAndContained ==
    \A k \in 1 .. Len(requests) :
        responses[k] # "ok" =>
            \E t \in TickerSet :
                /\ k \in RequestsFor(t)
                /\ \E n \in 1 .. Len(out) :
                        /\ out[n].kind = "error"
                        /\ out[n].ticker = t
                        /\ out[n].msg = responses[k]
                /\ Count(t, {"updated"}) = 0
                /\ exit_status # "1"
                /\ i > Index(t)
                /\ pc = "done" =>
                        /\ exit_status = "0"
                        /\ \A u \in TickerSet :
                                Index(u) > Index(t) => Count(u, {"fetching"}) = 1

\* the write of the first ticker failed and the run went on to its end
C3_Witness ==
    /\ pc = "done"
    /\ Len(responses) >= 2
    /\ responses[1] # "ok"
    /\ requests[1].Key.PK.S = "COMPANY#PLTR"

----------------------------------------------------------------------------
(* C2 *)

\* the report of ticker t is complete: the three report lines when the market
\* cap is present, the 'no data' line when it is absent
FullReport(t) ==
    IF CapPresent(t)
    THEN Count(t, {"price"}) = 1 /\ Count(t, {"capB"}) = 1 /\ Count(t, {"shares"}) = 1
    ELSE Count(t, {"nodata"}) = 1

\* C2: in a finished run in which the fetch of some tickers failed, every
\* ticker of the list was still fetched, and every ticker whose fetch
\* succeeded got its full report and, with marketCap present, its write.
C2_FetchFailureIsolation ==
    (script = "update" /\ pc = "done" /\ \E f \in TickerSet : quotes[f].st = "failed") =>
        \A t \in TickerSet :
            /\ quotes[t].st # "pending"
            /\ quotes[t].st = "ok" =>
                    /\ FullReport(t)
                    /\ CapPresent(t) => Cardinality(RequestsFor(t)) = 1

----------------------------------------------------------------------------
(* C4 *)

\* C4: in a finished run of the persistence script, every ticker fetched
\* with a present marketCap has exactly one update request, keyed
\* (COMPANY#<ticker>, METADATA) and carrying the fetched marketCap, whatever
\* the other fetched fields are.
C4_ExactlyOneUpdatePerMarketCap ==
    (script = "update" /\ pc = "done") =>
        \A t \in TickerSet :
            CapPresent(t) =>
                /\ Cardinality(RequestsFor(t)) = 1
                /\ \A k \in RequestsFor(t) :
                        requests[k].ExpressionAttributeValues[":mc"].N
                            = IntToStr(quotes[t].cap.n)

----------------------------------------------------------------------------
(* C5 *)

\* the divisions by 1e9 attempted for ticker t
DivisionsFor(t) == {k \in 1 .. Len(divisions) : divisions[k][1] = t}

\* C5: in both scripts, once the report of a ticker fetched without
\* marketCap is over, no division by 1e9 was attempted for it, a 'no data'
\* line was printed for it and no market-cap value line, and the process
\* did not crash.
C5_NoDataIndicatorInBothScripts ==
    /\ script = "update" =>
            \A t \in TickerSet :
                (CapAbsent(t) /\ Processed(t)) =>
                    /\ DivisionsFor(t) = {}
                    /\ Count(t, {"nodata"}) = 1
                    /\ Count(t, {"capB", "capRaw"}) = 0
                    /\ exit_status # "1"
    /\ (/\ script = "check" /\ pc = "done"
        /\ \E k \in 1 .. Len(hist) : hist[k] = <<"report", CheckTicker>>
        /\ DictGet(info, "marketCap", NoneV) = NoneV) =>
            /\ DivisionsFor(CheckTicker) = {}
            /\ Count(CheckTicker, {"nodata"}) = 1
            /\ Count(CheckTicker, {"capB", "capRaw"}) = 0
            /\ exit_status # "1"

----------------------------------------------------------------------------
(* C6 *)

\* the outcomes the claim lists: retrieval failure, missing market cap,
\* persistence failure (a check run whose shares count is None is left out)
ListedOutcome == script = "check" => Formattable(CheckShares(info))

\* C6: every run that has ended, of either script, whatever the listed
\* outcomes in it, has processed its full ticker list and exits with status 0.
C6_EveryRunExitsZero ==
    (pc = "done" /\ ListedOutcome) =>
        /\ exit_status = "0"
        /\ script = "update" => \A t \in TickerSet : Count(t, {"fetching"}) = 1
        /\ script = "check" => \E k \in 1 .. Len(hist) : hist[k] = <<"report", CheckTicker>>

----------------------------------------------------------------------------
(* C7 *)

ListKeys == {[PK |-> [S |-> "COMPANY#" \o t], SK |-> [S |-> "METADATA"]] : t \in TickerSet}

\* item it of key k, as far as attributes other than marketCap go
OtherAttributes(st, k) ==
    IF k \in DOMAIN st
    THEN [a \in (DOMAIN st[k]) \ {"marketCap"} |-> st[k][a]]
    ELSE <<>>

\* a step in which update_item returned without failure changes the
\* marketCap attribute of the record of the request's key and nothing else;
\* any other step leaves the store alone
C7_StepFrame ==
    IF Len(responses') > Len(responses) /\ responses'[Len(responses')] = "ok"
    THEN LET req == requests'[Len(requests')] IN
            /\ req.Key \in ListKeys
            /\ DOMAIN store' = (DOMAIN store) \cup {req.Key}
            /\ \A k \in DOMAIN store : k # req.Key => store'[k] = store[k]
            /\ OtherAttributes(store', req.Key) = OtherAttributes(store, req.Key)
            /\ store'[req.Key]["marketCap"] = req.ExpressionAttributeValues[":mc"]
    ELSE store' = store

\* only records of tickers of the list differ from their initial state
C7_RunFrame ==
    /\ DOMAIN InitStore \subseteq DOMAIN store
    /\ \A k \in DOMAIN store :
            k \notin ListKeys => (k \in DOMAIN InitStore /\ store[k] = InitStore[k])
    /\ \A k \in DOMAIN store : OtherAttributes(store, k) = OtherAttributes(InitStore, k)

\* C7: each successful update changes only the marketCap field of the single
\* record keyed (COMPANY#<ticker>, METADATA); every other field of that record
\* and every other record are unchanged, and at any time only records of
\* tickers of the list differ from their initial state.
C7_OnlyMarketCapOfOneRecordChanges == [][C7_StepFrame]_vars /\ []C7_RunFrame

\* the three tickers were all written: an existing market cap replaced, a
\* market cap added to a record without one, and a record created
C7_Witness ==
    /\ pc = "done"
    /\ Len(responses) = 3
    /\ \A k \in 1 .. 3 : responses[k] = "ok"
    /\ store # InitStore

----------------------------------------------------------------------------
(* C8 *)

StageRank(stage) == CASE stage = "fetch" -> 1 [] stage = "report" -> 2 [] stage = "write" -> 3

\* C8: in the persistence script the stages run one ticker at a time in the
\* list order PLTR, AMZN, META, no ticker skipped; within a ticker the order
\* is fetch, report, write, each stage following the previous one of the same
\* ticker directly; the report stage has run for every processed ticker
\* whose fetch succeeded; a finished run has fetched every ticker.
C8_SequentialInListOrder ==
    script = "update" =>
        /\ \A j, k \in 1 .. Len(hist) :
                j < k =>
                    \/ Index(hist[j][2]) < Index(hist[k][2])
                    \/ /\ hist[j][2] = hist[k][2]
                       /\ StageRank(hist[j][1]) < StageRank(hist[k][1])
        /\ \A k \in 1 .. Len(hist) :
                IF hist[k][1] = "fetch"
                THEN Index(hist[k][2]) = (IF k = 1 THEN 1 ELSE Index(hist[k - 1][2]) + 1)
                ELSE /\ k > 1
                     /\ hist[k - 1][2] = hist[k][2]
                     /\ StageRank(hist[k - 1][1]) = StageRank(hist[k][1]) - 1
        /\ \A t \in TickerSet :
                (quotes[t].st = "ok" /\ Processed(t)) =>
                    \E k \in 1 .. Len(hist) : hist[k] = <<"report", t>>
        /\ pc = "done" =>
                \A t \in TickerSet : \E k \in 1 .. Len(hist) : hist[k] = <<"fetch", t>>

\* a finished run in which one ticker went through all three stages, one
\* stopped after its report and one after its fetch
C8_Witness ==
    /\ script = "update" /\ pc = "done"
    /\ Len(hist) = 6
    /\ hist[3] = <<"write", "PLTR">>
    /\ hist[5] = <<"report", "AMZN">>
    /\ hist[6] = <<"fetch", "META">>

----------------------------------------------------------------------------
(* C9 *)

\* the price the specification asks for, with the script's missing sentinel
ExpectedPrice(d, sentinel) ==
    IF "currentPrice" \in DOMAIN d THEN d["currentPrice"]
    ELSE IF "regularMarketPrice" \in DOMAIN d THEN d["regularMarketPrice"]
    ELSE sentinel

\* C9: the price read from a fetched dict is its 'currentPrice' field when
\* present, its 'regularMarketPrice' field when 'currentPrice' is absent and
\* that one present, and the missing sentinel (None in the persistence script,
\* 'N/A' in the check script) when both are absent.
C9_PricePreference ==
    /\ (script = "update" /\ pc \in {"report", "write"}) =>
            /\ current_price = ExpectedPrice(info, NoneV)
            /\ \A n \in 1 .. Len(out) :
                    (out[n].kind = "price" /\ out[n].ticker = ticker) =>
                        out[n].arg = ExpectedPrice(info, NoneV)
    /\ (script = "check" /\ \E k \in 1 .. Len(hist) : hist[k] = <<"report", CheckTicker>>) =>
            /\ Count(CheckTicker, {"price"}) = 1
            /\ \A n \in 1 .. Len(out) :
                    out[n].kind = "price" => out[n].arg = ExpectedPrice(info, NA)

\* the fallback case: 'currentPrice' absent, 'regularMarketPrice' present,
\* and the price line printed from it
C9_Witness ==
    /\ script = "update" /\ pc = "write"
    /\ "currentPrice" \notin DOMAIN info
    /\ "regularMarketPrice" \in DOMAIN info
    /\ current_price = info["regularMarketPrice"]
    /\ current_price.t = "num"

----------------------------------------------------------------------------
(* C10 *)

\* C10: in the persistence script each ticker whose call has returned has
\* exactly one outcome line among 'Updated', 'No market cap data available'
\* and 'Error updating' (and none before), a finished run has one for every
\* ticker of the list, and the success line is there for a ticker exactly
\* when an update request for it was issued and returned without failure.
C10_OneOutcomeLinePerTicker ==
    script = "update" =>
        \A t \in TickerSet :
            /\ Count(t, OutcomeKinds) = (IF Processed(t) THEN 1 ELSE 0)
            /\ pc = "done" => Processed(t)
            /\ (Count(t, {"updated"}) = 1) <=> (\E k \in RequestsFor(t) : responses[k] = "ok")

\* a finished run with the three outcomes
C10_Witness ==
    /\ script = "update" /\ pc = "done"
    /\ Count("PLTR", {"updated"}) = 1
    /\ Count("AMZN", {"nodata"}) = 1
    /\ Count("META", {"error"}) = 1
    /\ Len(requests) = 2

====
